---- MODULE Spec2Model ----
(***************************************************************************)
(* Model of app.py, the MSA Individual Project Order generator: the        *)
(* document-assembly core (generate_msa_ipo_document and its section       *)
(* builders) and the Streamlit script that collects the widget values,     *)
(* validates them and runs the generation behind the generate button.      *)
(*                                                                         *)
(* Text is modelled by TLA+ strings; the Python string operations used by  *)
(* the code (len, lower, upper, in, endswith, replace, slicing, sorted)    *)
(* are operators computed character by character.  The one non-ASCII       *)
(* character of the source, the en dash, is written "-" (one character,    *)
(* as in the source, and not part of any caption keyword).                 *)
(***************************************************************************)
EXTENDS Integers, Sequences, FiniteSets, TLC

\* ------------------------------------------------------------------------
\* Bounds of the model
\* ------------------------------------------------------------------------

\* How many catalog tasks (the first ones, in the order the script shows
\* them) the modelled user checks, unchecks and types fees for.
MaxUiTasks == 1

\* Longest selected_tasks mapping (number of keys) passed by a direct call.
MaxTasks == 2

\* Longest description fragment rendered on its own.
MaxFragmentLen == 101

\* ------------------------------------------------------------------------
\* State
\* ------------------------------------------------------------------------

VARIABLES
    caller,           \* "ui": a Streamlit session; "direct": a direct call of the core
    text,             \* the text widgets' values
    check,            \* the "Include Task" checkboxes
    fee,              \* the "Fee Amount" number inputs (NoFee: empty)
    selected_tasks,   \* the script's selected_tasks after its last run
    button_enabled,   \* whether the last run rendered the generate button enabled
    success_shown,    \* st.success of the last run
    error_shown,      \* st.error of the last run
    download,         \* the download button of the last run: << >> or <<[data, file_name]>>
    pc,               \* the statement the running call is at, "idle" between runs
    args,             \* the arguments of generate_msa_ipo_document
    doc,              \* the Document's body: its blocks
    footer,           \* the Document's footer paragraph text
    margins,          \* the Document's section margins, in hundredths of an inch
    saved,            \* whether doc.save has returned in the current call
    file,             \* the file at temp_path: << >> (none) or <<content>>
    handle_open,      \* whether the handle opened on temp_path is open
    buffer,           \* the BytesIO buffer: << >> (empty) or <<content>>
    desc,             \* the description fragment a single pass of the fragment loop renders
    sessions          \* the browser sessions running the script side by side: each one's
                      \* widget values, call position and locals (the file is shared)

vars ==
    << caller, text, check, fee, selected_tasks, button_enabled, success_shown,
       error_shown, download, pc, args, doc, footer, margins, saved, file,
       handle_open, buffer, desc, sessions >>

\* ------------------------------------------------------------------------
\* Python values
\* ------------------------------------------------------------------------

\* Python's None where a string is expected (no text of the model equals it).
None == "<None>"

\* Python's None where a number is expected (number_input has min_value=0).
NoFee == -1

\* bool(v) of a string-or-None value.
Truthy(v) == v # None /\ v # ""

\* d.get(k) of a dict modelled as a function.
Get(d, k) == IF k \in DOMAIN d THEN d[k] ELSE None

UpperLetters == "ABCDEFGHIJKLMNOPQRSTUVWXYZ"

LowerLetters == "abcdefghijklmnopqrstuvwxyz"

CharAt(s, i) == SubSeq(s, i, i)

LowerChar(c) ==
    IF \E i \in 1..26 : CharAt(UpperLetters, i) = c
    THEN CharAt(LowerLetters, CHOOSE i \in 1..26 : CharAt(UpperLetters, i) = c)
    ELSE c

UpperChar(c) ==
    IF \E i \in 1..26 : CharAt(LowerLetters, i) = c
    THEN CharAt(UpperLetters, CHOOSE i \in 1..26 : CharAt(LowerLetters, i) = c)
    ELSE c

RECURSIVE MapChars(_, _, _)
MapChars(s, i, upper) ==
    IF i > Len(s) THEN ""
    ELSE (IF upper THEN UpperChar(CharAt(s, i)) ELSE LowerChar(CharAt(s, i)))
         \o MapChars(s, i + 1, upper)

\* str.lower()
Lower(s) == MapChars(s, 1, FALSE)

\* str.upper()
Upper(s) == MapChars(s, 1, TRUE)

\* sub in s
Contains(s, sub) ==
    \E i \in 1..(Len(s) - Len(sub) + 1) : SubSeq(s, i, i + Len(sub) - 1) = sub

\* s.endswith(suffix)
EndsWith(s, suffix) ==
    /\ Len(s) >= Len(suffix)
    /\ SubSeq(s, Len(s) - Len(suffix) + 1, Len(s)) = suffix

\* s.replace(old, new), left to right, non-overlapping (old is not empty).
RECURSIVE ReplaceFrom(_, _, _, _)
ReplaceFrom(s, i, old, new) ==
    IF i > Len(s) THEN ""
    ELSE IF i + Len(old) - 1 <= Len(s) /\ SubSeq(s, i, i + Len(old) - 1) = old
         THEN new \o ReplaceFrom(s, i + Len(old), old, new)
         ELSE CharAt(s, i) \o ReplaceFrom(s, i + 1, old, new)

Replace(s, old, new) == ReplaceFrom(s, 1, old, new)

\* s[:n]
Prefix(s, n) == SubSeq(s, 1, IF Len(s) < n THEN Len(s) ELSE n)

\* Order of characters that occur in task codes.
Digits == "0123456789"

CharRank(c) ==
    IF \E i \in 1..10 : CharAt(Digits, i) = c
    THEN CHOOSE i \in 1..10 : CharAt(Digits, i) = c
    ELSE 11

\* a < b on Python strings: lexicographic, a proper prefix is smaller.
RECURSIVE StrLessFrom(_, _, _)
StrLessFrom(a, b, i) ==
    IF i > Len(b) THEN FALSE
    ELSE IF i > Len(a) THEN TRUE
    ELSE IF CharAt(a, i) = CharAt(b, i) THEN StrLessFrom(a, b, i + 1)
    ELSE CharRank(CharAt(a, i)) < CharRank(CharAt(b, i))

StrLess(a, b) == StrLessFrom(a, b, 1)

\* sorted(keys) of a sequence of distinct strings.
RECURSIVE Sorted(_)
Sorted(keys) ==
    IF keys = <<>> THEN <<>>
    ELSE LET least == CHOOSE i \in 1..Len(keys) :
                          \A j \in 1..Len(keys) : j = i \/ StrLess(keys[i], keys[j])
         IN  <<keys[least]>>
             \o Sorted([j \in 1..(Len(keys) - 1) |->
                           IF j < least THEN keys[j] ELSE keys[j + 1]])

\* ------------------------------------------------------------------------
\* Task catalog
\* ------------------------------------------------------------------------

DEFAULT_FEES ==
    "110" :> [name |-> "Civil Engineering Design", amount |-> 40000, type |-> "Hourly, Not-to-Exceed"]
 @@ "120" :> [name |-> "Civil Schematic Design", amount |-> 35000, type |-> "Hourly, Not-to-Exceed"]
 @@ "130" :> [name |-> "Civil Design Development", amount |-> 45000, type |-> "Hourly, Not-to-Exceed"]
 @@ "140" :> [name |-> "Civil Construction Documents", amount |-> 50000, type |-> "Hourly, Not-to-Exceed"]
 @@ "150" :> [name |-> "Civil Permitting", amount |-> 40000, type |-> "Hourly, Not-to-Exceed"]
 @@ "210" :> [name |-> "Meetings and Coordination", amount |-> 20000, type |-> "Hourly, Not-to-Exceed"]

TASK_DESCRIPTIONS ==
    "110" :> <<
        "Kimley-Horn will prepare an onsite drainage report with supporting calculations showing the proposed development plan is consistent with the Southwest Florida Water Management District Basis of Review. This design will account for the stormwater design to support the development of the project site. The drainage report will include limited stormwater modeling to demonstrate that the Lot A site development will maintain the existing discharge rate and provide the required stormwater attenuation.",
        "The onsite drainage report will include calculations for 25-year 24-hour and 100-year 24-hour design storm conditions in accordance with Southwest Florida Water Management District Guidelines. A base stormwater design will be provided for the project site showing reasonable locations for stormwater conveyance features and stormwater management pond sizing."
      >>
 @@ "120" :> <<
        "Kimley-Horn will prepare Civil Schematic Design deliverables in accordance with the Client's Design Project Deliverables Checklist. For the Civil Schematic Design task, the deliverables that Kimley-Horn will provide consist of Civil Site Plan, Establish Finish Floor Elevations, Utility Will Serve Letters and Points of Service, Utility Routing and Easement Requirements."
      >>
 @@ "130" :> <<
        "Upon Client approval of the Schematic Design task, Kimley-Horn will prepare Design Development Plans of the civil design in accordance with the Client's Design Project Deliverables Checklist for Civil Design Development Deliverables. These documents will be approximately 50% complete and will include detail for City code review and preliminary pricing but will not include enough detail for construction bidding."
      >>
 @@ "140" :> <<
        "Based on the approved Development Plan, Kimley-Horn will provide engineering and design services for the preparation of site construction plans for on-site improvements.",
        "Cover Sheet",
        "The cover sheet includes plan contents, vicinity map, legal description and team identification.",
        "Existing Conditions Plan/Demolition Plan",
        "This sheet will include and identify the required demolition of the existing items on the project site.",
        "Site Layout Plan",
        "This sheet will include building setback lines, property lines, outline of building footprint, parking areas, handicap access ramps, sidewalks, crosswalks, driveways, and traffic lanes.",
        "Grading and Drainage Plan",
        "This sheet will include existing and proposed spot elevations and contours, building finish floor elevations, parking area drainage patterns, and stormwater inlet and pipe locations and sizes.",
        "Utility Plan",
        "This sheet will show the location and size of all water, sanitary sewer and reclaimed water facilities required to serve the development.",
        "Erosion and Sediment Control Plan",
        "This sheet will include erosion and sediment control measures designed to be implemented during construction.",
        "Details",
        "Standard and modified typical construction details will be provided."
      >>
 @@ "150" :> <<
        "Prepare and submit on the Client's behalf the following permitting packages for review/approval of construction documents, and attend meetings required to obtain the following Agency approvals:",
        "USF Site Development Permit",
        "Southwest Florida Water Management District Environmental Resource Permit - Minor Modification",
        "City of Tampa Water Department Commitment / Construction Plan Approval",
        "Hillsborough County Environmental Protection Commission",
        "Kimley-Horn will coordinate with the City of Tampa Development Review and coordination with the Florida Department of Transportation and the Hillsborough County departments as needed to obtain the necessary regulatory and utility approval of the site plans and associated drainage facilities. We will assist the Client with meetings necessary to gain site plan approval.",
        "This scope does not anticipate a Geotechnical or Environmental Assessment Report, Survey, Topographic Survey, or Arborist Report be required for this permit application.",
        "It is assumed Client will provide the needed information regarding the development program and requirements. Kimley-Horn will work with the Owner and their team to integrate the necessary design requirements into the Civil design to support entitlement, platting, and development approvals.",
        "These permit applications will be submitted using the electronic permitting submittal system (web-based system) for the respective jurisdictions where applicable."
      >>
 @@ "210" :> <<
        "Kimley-Horn will be available to provide miscellaneous project support at the direction of the Client. This task may include design meetings, additional permit support, permit research, or other miscellaneous tasks associated with the initial and future development of the project site. This task will also cover tasks such as design coordination meetings, scheduling, coordination with other client consultants, responses to additional rounds of agency comments."
      >>

\* sorted(DEFAULT_FEES.keys()): the task codes in the order the script shows them.
CatalogCodes ==
    LET keys == CHOOSE s \in [1..Cardinality(DOMAIN DEFAULT_FEES) -> DOMAIN DEFAULT_FEES] :
                    \A i, j \in DOMAIN s : i # j => s[i] # s[j]
    IN  Sorted(keys)

\* ------------------------------------------------------------------------
\* Document blocks (python-docx paragraphs of the body)
\* ------------------------------------------------------------------------

\* doc.add_paragraph() followed by add_run calls and paragraph formatting:
\* text is the concatenation of the runs.
Para(content, runs, bold, underline, italic, align, size, tab) ==
    [text |-> content, runs |-> runs, bold |-> bold, underline |-> underline,
     italic |-> italic, align |-> align, size |-> size, tab |-> tab]

\* doc.add_paragraph() alone: the blank-line separator.
Blank == Para("", 0, FALSE, FALSE, FALSE, "DEFAULT", 0, FALSE)

IsBlank(b) == b.runs = 0

\* ------------------------------------------------------------------------
\* Section builders: each gives the blocks it appends to the document
\* ------------------------------------------------------------------------

add_title_section(project_name, ipo_number) ==
    << Para(Upper(project_name), 1, TRUE, FALSE, FALSE, "CENTER", 12, FALSE),
       Para("INDIVIDUAL PROJECT ORDER NUMBER " \o ipo_number,
            1, TRUE, FALSE, FALSE, "CENTER", 10, FALSE),
       Blank,
       Blank >>

add_opening_paragraph(client_name, master_agreement_date) ==
    << Para("Describing a specific agreement between Kimley-Horn and Associates, Inc. "
            \o "(the Consultant), and " \o client_name
            \o " (the Client) in accordance with the terms of the "
            \o "Master Agreement for Continuing Professional Services dated "
            \o master_agreement_date
            \o ", which is incorporated herein by reference.",
            1, FALSE, FALSE, FALSE, "JUSTIFY", 11, FALSE),
       Blank >>

\* Mutant: a record without a second name line gets an empty line in its place.
SecondNameLineOrBlank(project_name_line2) ==
    IF Truthy(project_name_line2)
    THEN << Para("\t" \o project_name_line2, 2, TRUE, FALSE, FALSE, "DEFAULT", 11, TRUE) >>
    ELSE << Blank >>

\* The optional second line of the project name.
SecondNameLine(project_name_line2) ==
    IF Truthy(project_name_line2)
    THEN << Para("\t" \o project_name_line2, 2, TRUE, FALSE, FALSE, "DEFAULT", 11, TRUE) >>
    ELSE << >>

add_project_identification(project_name, project_name_line2, project_manager, project_number) ==
    << Para("Identification of Project:", 1, TRUE, TRUE, FALSE, "LEFT", 11, FALSE),
       Blank,
       Para("Project Name:\t" \o project_name, 2, TRUE, FALSE, FALSE, "DEFAULT", 11, TRUE) >>
    \o SecondNameLine(project_name_line2)
    \o << Para("KH Project Manager:\t" \o project_manager,
               2, TRUE, FALSE, FALSE, "DEFAULT", 11, TRUE),
          Para("Project Number:\t" \o project_number,
               2, TRUE, FALSE, FALSE, "DEFAULT", 11, TRUE),
          Blank >>

\* The loop over content_paragraphs.
RECURSIVE ContentBlocks(_)
ContentBlocks(content_paragraphs) ==
    IF content_paragraphs = << >> THEN << >>
    ELSE << Para(Head(content_paragraphs), 1, FALSE, FALSE, FALSE, "JUSTIFY", 11, FALSE),
            Blank >>
         \o ContentBlocks(Tail(content_paragraphs))

add_section_with_heading(heading_text, content_paragraphs) ==
    << Para(heading_text, 1, TRUE, TRUE, FALSE, "LEFT", 11, FALSE),
       Blank >>
    \o ContentBlocks(content_paragraphs)

sub_section_keywords ==
    << "cover sheet", "utility plan", "site layout", "site plan",
       "grading plan", "drainage plan", "paving", "erosion control",
       "detail", "existing conditions", "demolition" >>

\* Fragments shorter than this many characters can be sub-section headings.
SubsectionMaxLen == 100

\* Mutant: the length test lets a fragment of exactly 100 characters through.
is_subsection_inclusive(fragment) ==
    /\ Len(fragment) <= SubsectionMaxLen
    /\ LET lowered == Lower(fragment)
       IN  \E k \in 1..Len(sub_section_keywords) :
               Contains(lowered, sub_section_keywords[k])
    /\ ~EndsWith(fragment, ".")

is_subsection(fragment) ==
    /\ Len(fragment) < SubsectionMaxLen
    /\ LET lowered == Lower(fragment)
       IN  \E k \in 1..Len(sub_section_keywords) :
               Contains(lowered, sub_section_keywords[k])
    /\ ~EndsWith(fragment, ".")

\* Mutant: the blank line is added after every fragment.
DescriptionBlocksAlwaysBlank(fragment) ==
    << Para(fragment, 1, FALSE, FALSE, is_subsection(fragment), "JUSTIFY", 11, FALSE),
       Blank >>

\* One pass of the loop over a task's description fragments.
DescriptionBlocks(fragment) ==
    LET subsection == is_subsection(fragment)
    IN  << Para(fragment, 1, FALSE, FALSE, subsection, "JUSTIFY", 11, FALSE) >>
        \o (IF ~subsection THEN << Blank >> ELSE << >>)

RECURSIVE DescriptionsBlocks(_)
DescriptionsBlocks(descriptions) ==
    IF descriptions = << >> THEN << >>
    ELSE DescriptionBlocks(Head(descriptions)) \o DescriptionsBlocks(Tail(descriptions))

\* The blocks the loop over the description fragments appends for each
\* catalog task (they depend on the catalog alone).
CatalogBlocks ==
    [task_num \in DOMAIN TASK_DESCRIPTIONS |->
        DescriptionsBlocks(TASK_DESCRIPTIONS[task_num])]

\* selected_tasks is an insertion-ordered dict: a sequence of
\* [num |-> key, task |-> value] with distinct keys.
Keys(tasks) == [i \in 1..Len(tasks) |-> tasks[i].num]

Lookup(tasks, task_num) ==
    tasks[CHOOSE i \in 1..Len(tasks) : tasks[i].num = task_num].task

\* Mutant: the loop visits the tasks in insertion order.
TaskOrderAsInserted(tasks) == Keys(tasks)

\* The order in which the loop of add_scope_of_services visits the tasks.
TaskOrder(tasks) == Sorted(Keys(tasks))

TaskBlocks(tasks, task_num) ==
    << Para("Task " \o task_num \o " - "
                \o Replace(Lookup(tasks, task_num).name, "Civil ", ""),
            1, TRUE, TRUE, FALSE, "JUSTIFY", 11, FALSE),
       Blank >>
    \o CatalogBlocks[task_num]

\* Mutant: a task code without catalog entry is passed over.
RECURSIVE TasksLoopSkipping(_, _)
TasksLoopSkipping(tasks, order) ==
    IF order = << >> THEN [blocks |-> << >>, raised |-> FALSE]
    ELSE IF Head(order) \notin DOMAIN TASK_DESCRIPTIONS
         THEN TasksLoopSkipping(tasks, Tail(order))
         ELSE LET rest == TasksLoopSkipping(tasks, Tail(order))
              IN  [blocks |-> TaskBlocks(tasks, Head(order)) \o rest.blocks,
                   raised |-> rest.raised]

\* The loop over the tasks: the blocks appended, and whether it ended in a
\* KeyError (the blocks of the tasks before the failing one stay appended).
RECURSIVE TasksLoop(_, _)
TasksLoop(tasks, order) ==
    IF order = << >> THEN [blocks |-> << >>, raised |-> FALSE]
    ELSE IF Head(order) \notin DOMAIN TASK_DESCRIPTIONS
         THEN [blocks |-> << >>, raised |-> TRUE]
    ELSE IF "name" \notin DOMAIN Lookup(tasks, Head(order))
         \* the heading paragraph is added before its run's text is evaluated
         THEN [blocks |-> << Blank >>, raised |-> TRUE]
         ELSE LET rest == TasksLoop(tasks, Tail(order))
              IN  [blocks |-> TaskBlocks(tasks, Head(order)) \o rest.blocks,
                   raised |-> rest.raised]

add_scope_of_services(tasks) ==
    LET loop == TasksLoop(tasks, TaskOrder(tasks))
    IN  [blocks |-> << Para("Specific scope of basic Services:",
                            1, TRUE, TRUE, FALSE, "LEFT", 11, FALSE),
                       Blank >> \o loop.blocks,
         raised |-> loop.raised]

\* The text add_simple_footer puts in the footer paragraph.
FooterText == "rev 07/2024"

\* What doc.save writes: the package of the document's body, footer and margins.
Serialize(body, foot, geometry) ==
    [package |-> "docx", blocks |-> body, footer |-> foot, margins |-> geometry]

\* ------------------------------------------------------------------------
\* The Streamlit script: widgets, task selection, validation
\* ------------------------------------------------------------------------

\* The text_input and text_area widgets, by the variable the script binds.
TextWidgets ==
    { "project_title", "project_name", "ipo_number", "project_name_line2",
      "client_name", "master_agreement_date", "project_manager", "project_number",
      "overall_understanding", "lot_understanding" }

\* What the modelled user types into a text widget (or clears it to "").
SampleText(w) ==
    CASE w = "project_title" -> "Usf Fletcher District"
      [] w = "project_name" -> "USF Fletcher District - Phase 1"
      [] w = "ipo_number" -> "01"
      [] w = "project_name_line2" -> "Lot A Hotel"
      [] w = "client_name" -> "ACE Fletcher LLC"
      [] w = "master_agreement_date" -> "August 15, 2024"
      [] w = "project_manager" -> "Dustin Ballard, PE"
      [] w = "project_number" -> "145683001"
      [] w = "overall_understanding" -> "Overall text."
      [] w = "lot_understanding" -> "Lot text."

\* The fee amounts the modelled user types (number_input, min_value=0).
FeeInputs == {0, 25000}

\* The tasks whose checkbox and fee the modelled user touches.
UiCodes ==
    { CatalogCodes[i] : i \in 1..(IF MaxUiTasks < Len(CatalogCodes)
                                  THEN MaxUiTasks ELSE Len(CatalogCodes)) }

\* Mutant: an entered fee of 0 counts as no fee.
final_fee_if_truthy(fee_amount, task) ==
    IF fee_amount # NoFee /\ fee_amount # 0 THEN fee_amount ELSE task.amount

\* final_fee of the task selection loop.
final_fee(fee_amount, task) == IF fee_amount # NoFee THEN fee_amount ELSE task.amount

\* Mutant: a task with a fee typed is selected even when unchecked.
RECURSIVE SelectionLoopByFee(_, _, _)
SelectionLoopByFee(codes, checked, fees) ==
    IF codes = << >> THEN << >>
    ELSE (IF checked[Head(codes)] \/ fees[Head(codes)] # NoFee
          THEN << [num |-> Head(codes),
                   task |-> [name |-> DEFAULT_FEES[Head(codes)].name,
                             fee |-> final_fee(fees[Head(codes)], DEFAULT_FEES[Head(codes)]),
                             type |-> DEFAULT_FEES[Head(codes)].type]] >>
          ELSE << >>)
         \o SelectionLoopByFee(Tail(codes), checked, fees)

\* The task selection loop: selected_tasks after the script has run over the
\* catalog in sorted order with these checkbox and fee widget values.
RECURSIVE SelectionLoop(_, _, _)
SelectionLoop(codes, checked, fees) ==
    IF codes = << >> THEN << >>
    ELSE (IF checked[Head(codes)]
          THEN << [num |-> Head(codes),
                   task |-> [name |-> DEFAULT_FEES[Head(codes)].name,
                             fee |-> final_fee(fees[Head(codes)], DEFAULT_FEES[Head(codes)]),
                             type |-> DEFAULT_FEES[Head(codes)].type]] >>
          ELSE << >>)
         \o SelectionLoop(Tail(codes), checked, fees)

BuildSelectedTasks(checked, fees) ==
    SelectionLoop(CatalogCodes, checked, fees)

\* required_fields, in the order of the dict: label and the widget it reads.
required_fields ==
    << [field |-> "Project Title", widget |-> "project_title"],
       [field |-> "IPO Number", widget |-> "ipo_number"],
       [field |-> "Project Name", widget |-> "project_name"],
       [field |-> "Client Name", widget |-> "client_name"],
       [field |-> "Master Agreement Date", widget |-> "master_agreement_date"],
       [field |-> "KH Project Manager", widget |-> "project_manager"],
       [field |-> "Project Number", widget |-> "project_number"],
       [field |-> "Overall Project Understanding", widget |-> "overall_understanding"],
       [field |-> "Lot Specific Project Understanding", widget |-> "lot_understanding"] >>

\* Mutant: the last required field is not looked at.
missing_fields_but_last(values) ==
    LET IsMissing(r) == ~Truthy(values[r.widget])
    IN  SelectSeq(SubSeq(required_fields, 1, Len(required_fields) - 1), IsMissing)

missing_fields(values) ==
    LET IsMissing(r) == ~Truthy(values[r.widget])
    IN  SelectSeq(required_fields, IsMissing)

can_generate(values, tasks) == missing_fields(values) = << >> /\ tasks # << >>

\* project_info and client_info as the button handler prepares them.
PrepareProjectInfo(values) ==
    [title |-> values["project_title"],
     ipo_number |-> values["ipo_number"],
     name |-> values["project_name"],
     name_line2 |-> IF Truthy(values["project_name_line2"])
                    THEN values["project_name_line2"] ELSE None,
     project_manager |-> values["project_manager"],
     project_number |-> values["project_number"],
     overall_understanding |-> values["overall_understanding"],
     lot_understanding |-> values["lot_understanding"]]

PrepareClientInfo(values) ==
    [name |-> values["client_name"],
     master_agreement_date |-> values["master_agreement_date"]]

\* The download's file name.
DownloadFileName(ipo_number, project_name) ==
    "IPO_" \o ipo_number \o "_" \o Prefix(Replace(project_name, " ", "_"), 30) \o ".docx"

temp_path == "/tmp/temp_ipo.docx"

\* ------------------------------------------------------------------------
\* Inputs of a direct call of generate_msa_ipo_document
\* ------------------------------------------------------------------------

\* A key left out of a dict.
Absent == "<absent>"

DirectProjectInfo(title, name_line2, overall, lot) ==
    [k \in ({"ipo_number", "name", "project_manager", "project_number"}
            \cup (IF title = Absent THEN {} ELSE {"title"})
            \cup (IF name_line2 = Absent THEN {} ELSE {"name_line2"})
            \cup (IF overall = Absent THEN {} ELSE {"overall_understanding"})
            \cup (IF lot = Absent THEN {} ELSE {"lot_understanding"})) |->
        CASE k = "title" -> title
          [] k = "ipo_number" -> "01"
          [] k = "name" -> "Example Project"
          [] k = "project_manager" -> "J. Doe, PE"
          [] k = "project_number" -> "100000001"
          [] k = "name_line2" -> name_line2
          [] k = "overall_understanding" -> overall
          [] k = "lot_understanding" -> lot]

DirectClientInfo ==
    [name |-> "ACE Fletcher LLC", master_agreement_date |-> "August 15, 2024"]

\* A task code with no catalog entry (it sorts after "210" as a string).
UnlistedCode == "95"

DirectCodes == {CatalogCodes[i] : i \in 1..Len(CatalogCodes)} \cup {UnlistedCode}

DirectTask(code) ==
    IF code \in DOMAIN DEFAULT_FEES
    THEN [name |-> DEFAULT_FEES[code].name, fee |-> DEFAULT_FEES[code].amount,
          type |-> DEFAULT_FEES[code].type]
    ELSE [name |-> "Civil Unlisted Work", fee |-> 0, type |-> "Lump Sum"]

\* The insertion orders of the selected_tasks mappings a direct call passes.
DirectKeyOrders ==
    { s \in UNION { [1..n -> DirectCodes] : n \in 0..MaxTasks } :
        \A i, j \in DOMAIN s : i # j => s[i] # s[j] }

DirectSelectedTasks(order) ==
    [i \in 1..Len(order) |-> [num |-> order[i], task |-> DirectTask(order[i])]]

\* ------------------------------------------------------------------------
\* Initial state
\* ------------------------------------------------------------------------

widgetVars == << text, check, fee, selected_tasks, button_enabled >>

outputVars == << success_shown, error_shown, download >>

coreVars == << pc, args, doc, footer, margins, saved >>

ioVars == << file, handle_open, buffer >>

\* The margins of python-docx's default template, and those the core sets.
DefaultMargins == [top |-> 100, bottom |-> 100, left |-> 125, right |-> 125]

OneInchMargins == [top |-> 100, bottom |-> 100, left |-> 100, right |-> 100]

\* A file a failed save left behind: not a document.
Truncated ==
    [package |-> "truncated", blocks |-> << >>, footer |-> "", margins |-> DefaultMargins]

NoArgs ==
    [project_info |-> [k \in {"title"} |-> ""], client_info |-> [k \in {"name"} |-> ""],
     selected_tasks |-> << >>, output_path |-> ""]

Init ==
    /\ caller \in {"ui", "direct"}
    /\ text = [w \in TextWidgets |-> ""]
    /\ check = [c \in DOMAIN DEFAULT_FEES |-> FALSE]
    /\ fee = [c \in DOMAIN DEFAULT_FEES |-> NoFee]
    /\ selected_tasks = << >>
    /\ button_enabled = FALSE
    /\ success_shown = FALSE
    /\ error_shown = FALSE
    /\ download = << >>
    /\ pc = "idle"
    /\ args = NoArgs
    /\ doc = << >>
    /\ footer = ""
    /\ margins = DefaultMargins
    /\ saved = FALSE
    /\ file = << >>
    /\ handle_open = FALSE
    /\ buffer = << >>
    /\ desc = ""
    /\ sessions = << >>

\* ------------------------------------------------------------------------
\* The script's runs
\* ------------------------------------------------------------------------

\* One run of the script from the top down to the generate button, with the
\* widget values of the event that triggered it.  A run whose button was not
\* clicked shows neither message nor download button.
RunScript(values, checked, fees) ==
    /\ text' = values
    /\ check' = checked
    /\ fee' = fees
    /\ selected_tasks' = BuildSelectedTasks(checked, fees)
    /\ button_enabled' = can_generate(values, BuildSelectedTasks(checked, fees))
    /\ success_shown' = FALSE
    /\ error_shown' = FALSE
    /\ download' = << >>

\* The user types into (or clears) a text widget.
EditText ==
    /\ caller = "ui"
    /\ pc = "idle"
    /\ \E w \in TextWidgets : \E v \in {"", SampleText(w)} :
         /\ text[w] # v
         /\ RunScript([text EXCEPT ![w] = v], check, fee)
    /\ UNCHANGED << caller, desc, sessions, coreVars, ioVars >>

\* The user checks or unchecks a task.
ToggleTask ==
    /\ caller = "ui"
    /\ pc = "idle"
    /\ \E c \in UiCodes : RunScript(text, [check EXCEPT ![c] = ~check[c]], fee)
    /\ UNCHANGED << caller, desc, sessions, coreVars, ioVars >>

\* The user types a fee (or empties the input); the input is disabled
\* while the task is unchecked.
EditFee ==
    /\ caller = "ui"
    /\ pc = "idle"
    /\ \E c \in UiCodes : \E v \in FeeInputs \cup {NoFee} :
         /\ check[c]
         /\ fee[c] # v
         /\ RunScript(text, check, [fee EXCEPT ![c] = v])
    /\ UNCHANGED << caller, desc, sessions, coreVars, ioVars >>

\* The user clicks the download button: the script runs again.
ClickDownload ==
    /\ caller = "ui"
    /\ pc = "idle"
    /\ download # << >>
    /\ RunScript(text, check, fee)
    /\ UNCHANGED << caller, desc, sessions, coreVars, ioVars >>

\* generate_msa_ipo_document is entered: Document() and the margins.
EnterCore(project_info, client_info, tasks, output_path) ==
    /\ args' = [project_info |-> project_info, client_info |-> client_info,
                selected_tasks |-> tasks, output_path |-> output_path]
    /\ doc' = << >>
    /\ footer' = ""
    /\ margins' = OneInchMargins
    /\ saved' = FALSE
    /\ pc' = "title"

\* The user clicks the generate button (only an enabled button can be
\* clicked): the script runs again and this time enters the handler, which
\* prepares the data and calls the core.
ClickGenerate ==
    /\ caller = "ui"
    /\ pc = "idle"
    /\ button_enabled
    /\ RunScript(text, check, fee)
    /\ buffer' = << >>
    /\ EnterCore(PrepareProjectInfo(text), PrepareClientInfo(text),
                 BuildSelectedTasks(check, fee), temp_path)
    /\ UNCHANGED << caller, desc, sessions, file, handle_open >>

\* A direct call of the core with a record of its own.
DirectCall ==
    /\ caller = "direct"
    /\ pc = "idle"
    /\ \E title \in {Absent, "", "Example Project"} :
         \E name_line2 \in {Absent, None, "", "Lot A Hotel"} :
           \E overall \in {Absent, "", "Overall text."} :
             \E lot \in {Absent, "", "Lot text."} :
               \E order \in DirectKeyOrders :
                 EnterCore(DirectProjectInfo(title, name_line2, overall, lot),
                           DirectClientInfo, DirectSelectedTasks(order), temp_path)
    /\ UNCHANGED << caller, desc, sessions, widgetVars, outputVars, file, handle_open, buffer >>

\* ------------------------------------------------------------------------
\* generate_msa_ipo_document, statement by statement
\* ------------------------------------------------------------------------

\* Mutant: the scope of services is built before the lot understanding.
StepAfterScopeFirst(step) ==
    CASE step = "title" -> "opening"
      [] step = "opening" -> "ident"
      [] step = "ident" -> "overall"
      [] step = "overall" -> "scope"
      [] step = "scope" -> "lot"
      [] step = "lot" -> "footer"
      [] step = "footer" -> "save"
      [] step = "save" -> "returned"

\* The statement that follows each statement of the core.
StepAfter(step) ==
    CASE step = "title" -> "opening"
      [] step = "opening" -> "ident"
      [] step = "ident" -> "overall"
      [] step = "overall" -> "lot"
      [] step = "lot" -> "scope"
      [] step = "scope" -> "footer"
      [] step = "footer" -> "save"
      [] step = "save" -> "returned"

\* d[k] is defined for every k of keys (otherwise the statement raises KeyError).
HasKeys(d, keys) == keys \subseteq DOMAIN d

\* add_title_section(doc, project_info['title'], project_info['ipo_number'])
StepTitle ==
    /\ pc = "title"
    /\ IF HasKeys(args.project_info, {"title", "ipo_number"})
       THEN /\ doc' = doc \o add_title_section(args.project_info["title"],
                                               args.project_info["ipo_number"])
            /\ pc' = StepAfter("title")
       ELSE /\ doc' = doc
            /\ pc' = "raised"
    /\ UNCHANGED << caller, desc, sessions, widgetVars, outputVars, args, footer, margins, saved, ioVars >>

\* add_opening_paragraph(doc, client_info['name'], client_info['master_agreement_date'])
StepOpening ==
    /\ pc = "opening"
    /\ IF HasKeys(args.client_info, {"name", "master_agreement_date"})
       THEN /\ doc' = doc \o add_opening_paragraph(args.client_info["name"],
                                                   args.client_info["master_agreement_date"])
            /\ pc' = StepAfter("opening")
       ELSE /\ doc' = doc
            /\ pc' = "raised"
    /\ UNCHANGED << caller, desc, sessions, widgetVars, outputVars, args, footer, margins, saved, ioVars >>

\* add_project_identification(doc, project_info['name'], project_info.get('name_line2'), ...)
StepIdent ==
    /\ pc = "ident"
    /\ IF HasKeys(args.project_info, {"name", "project_manager", "project_number"})
       THEN /\ doc' = doc \o add_project_identification(
                                 args.project_info["name"],
                                 Get(args.project_info, "name_line2"),
                                 args.project_info["project_manager"],
                                 args.project_info["project_number"])
            /\ pc' = StepAfter("ident")
       ELSE /\ doc' = doc
            /\ pc' = "raised"
    /\ UNCHANGED << caller, desc, sessions, widgetVars, outputVars, args, footer, margins, saved, ioVars >>

\* Mutant: the section is left out only when the text is None.
UnderstandingBlocksUnlessNone(project_info, key, heading_text) ==
    IF Get(project_info, key) # None
    THEN add_section_with_heading(heading_text, << project_info[key] >>)
    ELSE << >>

\* The blocks of a conditional understanding section.
UnderstandingBlocks(project_info, key, heading_text) ==
    IF Truthy(Get(project_info, key))
    THEN add_section_with_heading(heading_text, << project_info[key] >>)
    ELSE << >>

\* if project_info.get('overall_understanding'): add_section_with_heading(...)
StepOverall ==
    /\ pc = "overall"
    /\ doc' = doc \o UnderstandingBlocks(args.project_info, "overall_understanding",
                                         "Overall Project Understanding:")
    /\ pc' = StepAfter("overall")
    /\ UNCHANGED << caller, desc, sessions, widgetVars, outputVars, args, footer, margins, saved, ioVars >>

\* if project_info.get('lot_understanding'): add_section_with_heading(...)
StepLot ==
    /\ pc = "lot"
    /\ doc' = doc \o UnderstandingBlocks(args.project_info, "lot_understanding",
                                         "Lot Specific Project Understanding:")
    /\ pc' = StepAfter("lot")
    /\ UNCHANGED << caller, desc, sessions, widgetVars, outputVars, args, footer, margins, saved, ioVars >>

\* add_scope_of_services(doc, selected_tasks)
StepScope ==
    /\ pc = "scope"
    /\ LET scope == add_scope_of_services(args.selected_tasks)
       IN  /\ doc' = doc \o scope.blocks
           /\ pc' = IF scope.raised THEN "raised" ELSE StepAfter("scope")
    /\ UNCHANGED << caller, desc, sessions, widgetVars, outputVars, args, footer, margins, saved, ioVars >>

\* add_simple_footer(doc)
StepFooter ==
    /\ pc = "footer"
    /\ footer' = FooterText
    /\ pc' = StepAfter("footer")
    /\ UNCHANGED << caller, desc, sessions, widgetVars, outputVars, args, doc, margins, saved, ioVars >>

\* What a call of doc.save can end in: the package written; an error before
\* anything was written; an error after the file was opened for writing.
SaveOutcomes == {"written", "refused", "truncated"}

\* doc.save(output_path); return output_path
StepSave ==
    /\ pc = "save"
    /\ \E outcome \in SaveOutcomes :
         /\ file' = CASE outcome = "written" -> << Serialize(doc, footer, margins) >>
                      [] outcome = "refused" -> file
                      [] outcome = "truncated" -> << Truncated >>
         /\ saved' = (outcome = "written")
         /\ pc' = IF outcome = "written" THEN StepAfter("save") ELSE "raised"
    /\ UNCHANGED << caller, desc, sessions, widgetVars, outputVars, args, doc, footer, margins,
                    handle_open, buffer >>

\* ------------------------------------------------------------------------
\* The generate button handler after the core's call
\* ------------------------------------------------------------------------

\* The call's locals are gone when the handler ends.
ForgetCall ==
    /\ args' = NoArgs
    /\ doc' = << >>
    /\ footer' = ""
    /\ margins' = DefaultMargins
    /\ saved' = FALSE
    /\ buffer' = << >>

\* with open(temp_path, 'rb') as f:
OpenTemp ==
    /\ caller = "ui"
    /\ pc = "returned"
    /\ handle_open' = TRUE
    /\ pc' = "read"
    /\ UNCHANGED << caller, desc, sessions, widgetVars, outputVars, args, doc, footer, margins, saved,
                    file, buffer >>

\* buffer.write(f.read()), leaving the with block; buffer.seek(0)
ReadTemp ==
    /\ pc = "read"
    /\ buffer' = file
    /\ handle_open' = FALSE
    /\ pc' = "offer"
    /\ UNCHANGED << caller, desc, sessions, widgetVars, outputVars, args, doc, footer, margins, saved, file >>

\* filename, st.success, st.download_button: the handler's last statements.
OfferDownload ==
    /\ pc = "offer"
    /\ success_shown' = TRUE
    /\ download' = << [data |-> buffer[1],
                       file_name |-> DownloadFileName(text["ipo_number"],
                                                      text["project_name"])] >>
    /\ ForgetCall
    /\ pc' = "idle"
    /\ UNCHANGED << caller, desc, sessions, widgetVars, error_shown, file, handle_open >>

\* except Exception as e: st.error(...)
HandleError ==
    /\ caller = "ui"
    /\ pc = "raised"
    /\ error_shown' = TRUE
    /\ ForgetCall
    /\ pc' = "idle"
    /\ UNCHANGED << caller, desc, sessions, widgetVars, success_shown, download, file, handle_open >>

\* ------------------------------------------------------------------------
\* Specification
\* ------------------------------------------------------------------------

Next ==
    \/ EditText
    \/ ToggleTask
    \/ EditFee
    \/ ClickGenerate
    \/ ClickDownload
    \/ DirectCall
    \/ StepTitle
    \/ StepOpening
    \/ StepIdent
    \/ StepOverall
    \/ StepLot
    \/ StepScope
    \/ StepFooter
    \/ StepSave
    \/ OpenTemp
    \/ ReadTemp
    \/ OfferDownload
    \/ HandleError

Spec == Init /\ [][Next]_vars

\* ------------------------------------------------------------------------
\* One pass of the description loop on a fragment of its own
\* ------------------------------------------------------------------------

\* n filler characters (no caption keyword contains a "z").
RECURSIVE Pad(_)
Pad(n) == IF n <= 0 THEN "" ELSE "z" \o Pad(n - 1)

\* How the fragments start: with a caption keyword in some letter case ...
KeywordHeads ==
    { "Cover Sheet", "UTILITY PLAN ", "site layout", "Overall Site Plan",
      "Grading Plan", "Storm Drainage Plan", "Paving", "Erosion Control",
      "Details", "Existing Conditions", "demolition" }

\* ... or without any.
PlainHeads ==
    { "", "Cover  Sheet", "Erosion and Sediment Control Plan", "USF Permit", "Pavement" }

\* How the fragments end.
FragmentTails == { "", ".", ":", ". ", ".)" }

\* The fragment of a given length with this start and this end.
Fragment(head, length, tail) ==
    head \o Pad(length - Len(head) - Len(tail)) \o tail

FragmentLengths(head, tail) ==
    { Len(head) + Len(tail) } \cup ((SubsectionMaxLen - 2)..MaxFragmentLen)

InitFragment ==
    /\ caller = "direct"
    /\ text = [w \in TextWidgets |-> ""]
    /\ check = [c \in DOMAIN DEFAULT_FEES |-> FALSE]
    /\ fee = [c \in DOMAIN DEFAULT_FEES |-> NoFee]
    /\ selected_tasks = << >>
    /\ button_enabled = FALSE
    /\ success_shown = FALSE
    /\ error_shown = FALSE
    /\ download = << >>
    /\ pc = "desc"
    /\ \E head \in KeywordHeads \cup PlainHeads : \E tail \in FragmentTails :
         \E length \in FragmentLengths(head, tail) :
           /\ args = [head |-> head, length |-> length, tail |-> tail]
           /\ desc = Fragment(head, length, tail)
    /\ doc = << >>
    /\ footer = ""
    /\ margins = OneInchMargins
    /\ saved = FALSE
    /\ file = << >>
    /\ handle_open = FALSE
    /\ buffer = << >>
    /\ sessions = << >>

\* The body of "for desc in descriptions" for the fragment desc.
StepDescription ==
    /\ pc = "desc"
    /\ doc' = doc \o DescriptionBlocks(desc)
    /\ pc' = "described"
    /\ UNCHANGED << caller, desc, sessions, widgetVars, outputVars, args, footer, margins, saved,
                    ioVars >>

NextFragment == StepDescription

SpecFragment == InitFragment /\ [][NextFragment]_vars

\* ------------------------------------------------------------------------
\* Claims
\* ------------------------------------------------------------------------

\* The order of the body sections the specification gives.
ClaimedOrder == << "title", "opening", "ident", "overall", "lot", "scope" >>

\* The blocks of one body section for the arguments a.
SectionBlocks(section, a) ==
    CASE section = "title" ->
             add_title_section(a.project_info["title"], a.project_info["ipo_number"])
      [] section = "opening" ->
             add_opening_paragraph(a.client_info["name"],
                                   a.client_info["master_agreement_date"])
      [] section = "ident" ->
             add_project_identification(a.project_info["name"],
                                        Get(a.project_info, "name_line2"),
                                        a.project_info["project_manager"],
                                        a.project_info["project_number"])
      [] section = "overall" ->
             IF Truthy(Get(a.project_info, "overall_understanding"))
             THEN add_section_with_heading("Overall Project Understanding:",
                                           << a.project_info["overall_understanding"] >>)
             ELSE << >>
      [] section = "lot" ->
             IF Truthy(Get(a.project_info, "lot_understanding"))
             THEN add_section_with_heading("Lot Specific Project Understanding:",
                                           << a.project_info["lot_understanding"] >>)
             ELSE << >>
      [] section = "scope" -> add_scope_of_services(a.selected_tasks).blocks

\* The first n sections of the claimed order, one after the other.
RECURSIVE BodyOf(_, _)
BodyOf(a, n) ==
    IF n = 0 THEN << >> ELSE BodyOf(a, n - 1) \o SectionBlocks(ClaimedOrder[n], a)

\* How many sections must be in the body when control is at a statement.
SectionsDue(at) ==
    CASE at = "title" -> 0
      [] at = "opening" -> 1
      [] at = "ident" -> 2
      [] at = "overall" -> 3
      [] at = "lot" -> 4
      [] at = "scope" -> 5
      [] at \in {"footer", "save", "returned", "read", "offer"} -> 6

InCore == pc \in {"title", "opening", "ident", "overall", "lot", "scope", "footer", "save"}

AfterCore == pc \in {"returned", "read", "offer"}

\* C1: at every statement of generate_msa_ipo_document the body is exactly
\* the sections that precede it in the fixed order title, opening,
\* identification, overall understanding, lot understanding, scope, each
\* section's blocks contiguous; the footer is set only once all six are in
\* the body; and the file is written only with the footer set and the whole
\* body present.
C1_FixedOrder ==
    /\ (InCore \/ AfterCore) => doc = BodyOf(args, SectionsDue(pc))
    /\ (pc \in {"title", "opening", "ident", "overall", "lot", "scope", "footer"})
           => footer = ""
    /\ ((InCore \/ AfterCore \/ pc = "raised") /\ footer # "")
           => (footer = FooterText /\ doc = BodyOf(args, 6))
    /\ saved => /\ footer = FooterText
                /\ doc = BodyOf(args, 6)
                /\ file = << Serialize(BodyOf(args, 6), FooterText, OneInchMargins) >>

\* A direct call has returned with both understanding sections and two tasks.
C1_Witness ==
    /\ caller = "direct"
    /\ pc = "returned"
    /\ saved
    /\ Truthy(Get(args.project_info, "overall_understanding"))
    /\ Truthy(Get(args.project_info, "lot_understanding"))
    /\ Len(args.selected_tasks) = 2
    /\ Len(doc) > 20

\* The blocks the scope-of-services builder appended to the finished body.
ScopePart == SubSeq(doc, Len(BodyOf(args, 5)) + 1, Len(doc))

\* A task heading: the only bold, underlined, justified paragraphs.
IsTaskHeading(b) == b.bold /\ b.underline /\ b.align = "JUSTIFY"

\* The task code a task heading "Task <code> - <name>" shows.
HeadingCode(b) ==
    LET dash == CHOOSE k \in 6..Len(b.text) :
                    /\ SubSeq(b.text, k, k + 2) = " - "
                    /\ \A j \in 6..(k - 1) : SubSeq(b.text, j, j + 2) # " - "
    IN  SubSeq(b.text, 6, dash - 1)

\* The task codes of the headings of a block sequence, in their order.
HeadingCodes(blocks) ==
    LET headings == SelectSeq(blocks, IsTaskHeading)
    IN  [i \in 1..Len(headings) |-> HeadingCode(headings[i])]

\* The insertion orders of one key set.
Reorderings(order) ==
    { s \in [1..Len(order) -> {order[i] : i \in 1..Len(order)}] :
        \A i, j \in 1..Len(order) : i # j => s[i] # s[j] }

\* The selected_tasks mapping with its keys inserted in another order.
Reinserted(tasks, order) ==
    [i \in 1..Len(order) |-> [num |-> order[i], task |-> Lookup(tasks, order[i])]]

\* C2: once add_scope_of_services has run to its end, the section holds
\* exactly one task heading per selected code, the headings' codes strictly
\* ascending, whatever the insertion order of selected_tasks; and every other
\* insertion order of the same mapping gives the same blocks.
C2_AscendingTasks ==
    pc \in {"footer", "save", "returned"} =>
        LET codes == HeadingCodes(ScopePart)
            keys == Keys(args.selected_tasks)
        IN  /\ Len(codes) = Len(keys)
            /\ {codes[i] : i \in 1..Len(codes)} = {keys[i] : i \in 1..Len(keys)}
            /\ \A i, j \in 1..Len(codes) : i < j => StrLess(codes[i], codes[j])
            /\ \A order \in Reorderings(keys) :
                   add_scope_of_services(Reinserted(args.selected_tasks, order)).blocks
                       = ScopePart

\* The scope section is complete for a mapping whose keys were inserted in
\* descending order.
C2_Witness ==
    /\ pc = "footer"
    /\ Keys(args.selected_tasks) = << "210", "140" >>
    /\ HeadingCodes(ScopePart) = << "140", "210" >>

\* What a rendered fragment is, by the way it was put together: its length,
\* whether it starts with a caption keyword, whether it ends in a period.
ShortFragment == args.length < 100

KeywordFragment == args.head \in KeywordHeads

PeriodFragment == args.tail = "."

\* C3: a fragment is rendered italic (a sub-heading) exactly when it is
\* shorter than 100 characters, contains a caption keyword in any letter
\* case, and does not end with a period; in every other combination of the
\* three conditions it is a plain (non-italic) justified paragraph.
C3_SubHeadingRule ==
    pc = "described" =>
        /\ Len(desc) = args.length
        /\ doc[1].text = desc
        /\ doc[1].align = "JUSTIFY"
        /\ doc[1].italic = (ShortFragment /\ KeywordFragment /\ ~PeriodFragment)

\* A keyword fragment of 99 characters without a final period was rendered.
C3_Witness ==
    /\ pc = "described"
    /\ args.length = 99
    /\ KeywordFragment
    /\ ~PeriodFragment
    /\ doc[1].italic

\* The body is complete: every builder has run.
Assembled == pc \in {"footer", "save", "returned", "read", "offer"}

\* The block after block i of the body is a blank-line separator.
BlankFollows(i) == i < Len(doc) /\ IsBlank(doc[i + 1])

StartsWith(s, prefix) == Len(s) >= Len(prefix) /\ SubSeq(s, 1, Len(prefix)) = prefix

\* C4 as claimed: in an assembled document a blank line follows a non-blank
\* block exactly when the block is not a sub-heading.
C4_BlankAfterAllButSubHeadings ==
    Assembled =>
        \A i \in 1..Len(doc) :
            ~IsBlank(doc[i]) => (BlankFollows(i) <=> ~doc[i].italic)

\* The blocks the builders follow directly with the next line: a
\* sub-heading, the title line (the IPO number line comes next), and the
\* identification block's tabbed lines before its last one (Project Number).
KeepsNextLine(b) ==
    \/ b.italic
    \/ b.align = "CENTER" /\ b.size = 12
    \/ b.tab /\ ~StartsWith(b.text, "Project Number:")

\* C4 (amended): in an assembled document no blank line follows a
\* sub-heading, the title line, or a tabbed identification line other than
\* the Project Number line; a blank line follows every other non-blank
\* block, so each description fragment is followed by a blank line exactly
\* when it is not a sub-heading.
C4_BlankLineRule ==
    Assembled =>
        \A i \in 1..Len(doc) :
            ~IsBlank(doc[i]) => (BlankFollows(i) <=> ~KeepsNextLine(doc[i]))

\* An assembled document holds a sub-heading directly followed by the next
\* fragment and a plain fragment followed by a blank line.
C4_Witness ==
    /\ Assembled
    /\ \E i \in 1..Len(doc) : doc[i].italic /\ ~BlankFollows(i)
    /\ \E i \in 1..Len(doc) :
           /\ doc[i].align = "JUSTIFY" /\ ~doc[i].bold /\ ~doc[i].italic
           /\ BlankFollows(i)
    /\ \E i \in 1..Len(doc) : doc[i].tab /\ ~BlankFollows(i)


\* The arguments a with the second project-name line set to v (or the key
\* left out of project_info).
WithNameLine2(a, v) ==
    [a EXCEPT !.project_info =
        IF v = Absent
        THEN [k \in (DOMAIN @) \ {"name_line2"} |-> @[k]]
        ELSE [k \in (DOMAIN @) \cup {"name_line2"} |->
                 IF k = "name_line2" THEN v ELSE @[k]]]

\* The block sequence without its block at position i.
Without(blocks, i) == SubSeq(blocks, 1, i - 1) \o SubSeq(blocks, i + 1, Len(blocks))

\* Where the second-name paragraph stands in a body that has one: after the
\* title block, the opening clause, the identification heading, its blank
\* line and the Project Name line.
NameLine2Position == Len(BodyOf(args, 2)) + 4

\* The block is the tab-prefixed second-name paragraph showing line.
IsNameLine2(b, line) == b.text = "\t" \o line /\ b.tab /\ b.bold /\ ~IsBlank(b)

\* C5: the document of a record with a second project-name line and the
\* document of the same record without one (None, empty or no key at all)
\* differ by exactly one block, the tab-prefixed second-name paragraph of the
\* identification block; every other block, blank lines included, is the
\* same and in the same order.
C5_SecondNameLine ==
    pc \in {"footer", "save", "returned"} =>
        LET line2 == Get(args.project_info, "name_line2")
        IN  IF Truthy(line2)
            THEN /\ IsNameLine2(doc[NameLine2Position], line2)
                 /\ \A v \in {Absent, None, ""} :
                        LET other == BodyOf(WithNameLine2(args, v), 6)
                        IN  /\ Len(other) = Len(doc) - 1
                            /\ other = Without(doc, NameLine2Position)
            ELSE \A v \in {"Lot A Hotel"} :
                    LET other == BodyOf(WithNameLine2(args, v), 6)
                    IN  /\ Len(other) = Len(doc) + 1
                        /\ IsNameLine2(other[NameLine2Position], v)
                        /\ doc = Without(other, NameLine2Position)

\* A document with a second project-name line is assembled.
C5_Witness ==
    /\ pc = "footer"
    /\ Get(args.project_info, "name_line2") = "Lot A Hotel"
    /\ doc[NameLine2Position].text = "\tLot A Hotel"
    /\ ~IsBlank(doc[NameLine2Position + 1])

\* The understanding text under key is present and non-empty.
Supplied(key) ==
    /\ key \in DOMAIN args.project_info
    /\ args.project_info[key] # None
    /\ args.project_info[key] # ""

\* blocks is a labeled free-text section: heading, blank line, one
\* justified paragraph, blank line.
IsLabeledSection(blocks, heading_text, content) ==
    /\ Len(blocks) = 4
    /\ blocks[1].text = heading_text /\ blocks[1].bold /\ blocks[1].underline
    /\ IsBlank(blocks[2])
    /\ blocks[3].text = content /\ blocks[3].align = "JUSTIFY" /\ ~blocks[3].bold
    /\ IsBlank(blocks[4])

\* What the body holds after the identification block when the scope of
\* services is about to be built.
UnderstandingPart == SubSeq(doc, Len(BodyOf(args, 3)) + 1, Len(doc))

SectionLen(key) == IF Supplied(key) THEN 4 ELSE 0

\* C6: each understanding section is in the document exactly when its text
\* is present and non-empty, whatever the other one's text; a section left
\* out adds no block, and a section put in adds heading, blank line, one
\* justified paragraph with the text, blank line.
C6_ConditionalSections ==
    pc = "scope" =>
        LET overall == SubSeq(UnderstandingPart, 1, SectionLen("overall_understanding"))
            lot == SubSeq(UnderstandingPart, SectionLen("overall_understanding") + 1,
                          Len(UnderstandingPart))
        IN  /\ Len(UnderstandingPart) = SectionLen("overall_understanding")
                                            + SectionLen("lot_understanding")
            /\ Supplied("overall_understanding") =>
                   IsLabeledSection(overall, "Overall Project Understanding:",
                                    args.project_info["overall_understanding"])
            /\ Supplied("lot_understanding") =>
                   IsLabeledSection(lot, "Lot Specific Project Understanding:",
                                    args.project_info["lot_understanding"])

\* The overall section was left out (empty text) and the lot section put in.
C6_Witness ==
    /\ pc = "scope"
    /\ Get(args.project_info, "overall_understanding") = ""
    /\ Supplied("lot_understanding")
    /\ Len(UnderstandingPart) = 4
    /\ UnderstandingPart[1].text = "Lot Specific Project Understanding:"


\* The codes of the call's selected_tasks that have no catalog entry.
UnlistedKeys ==
    { args.selected_tasks[i].num : i \in 1..Len(args.selected_tasks) }
        \ DOMAIN TASK_DESCRIPTIONS

\* A call whose selected_tasks holds an unlisted code gets no further than
\* the scope of services; a run that shows the failure message shows neither
\* the success message nor a download button.
C7_NoResultOnFailure ==
    /\ (pc \in {"footer", "save", "returned", "read", "offer"}) => UnlistedKeys = {}
    /\ (pc = "raised") => (~saved /\ ~success_shown /\ download = << >>)
    /\ error_shown => (~success_shown /\ download = << >>)

\* The step in which the call fails: the scope of services raises on an
\* unlisted code; nothing is saved; a failure before doc.save leaves the
\* output path untouched and a failure of doc.save leaves no document there.
C7_FailingStep ==
    /\ (pc = "scope" /\ UnlistedKeys # {}) => pc' = "raised"
    /\ (pc # "raised" /\ pc' = "raised") =>
           /\ ~saved'
           /\ pc # "save" => file' = file
           /\ pc = "save" => file' \in {file, << Truncated >>}
           /\ download' = download

\* The script's except branch: the failure message is shown, the blocks
\* built so far are dropped, no download button is offered.
C7_CaughtFailure ==
    (pc = "raised" /\ caller = "ui") =>
        /\ error_shown'
        /\ ~success_shown'
        /\ download' = << >>
        /\ doc' = << >>
        /\ file' = file

\* C7: a generation that fails (in particular on a task code without catalog
\* entry) raises instead of returning and writes no document: the blocks
\* appended so far never reach the output path; the script run that caught
\* the error shows the failure message and offers no download.
C7_FailureYieldsNoArtifact ==
    /\ []C7_NoResultOnFailure
    /\ [][C7_FailingStep]_vars
    /\ [][C7_CaughtFailure]_vars

\* A direct call with an unlisted task code has raised in the scope of
\* services, with blocks appended and nothing written.
C7_Witness ==
    /\ caller = "direct"
    /\ pc = "raised"
    /\ UnlistedCode \in UnlistedKeys
    /\ "title" \in DOMAIN args.project_info
    /\ Len(doc) > Len(BodyOf(args, 5))
    /\ ~saved
    /\ file = << >>

\* The widgets of the nine mandatory fields.
MandatoryWidgets ==
    { "project_title", "ipo_number", "project_name", "client_name",
      "master_agreement_date", "project_manager", "project_number",
      "overall_understanding", "lot_understanding" }

\* C8: the fee in the record of every selected task is the catalog's default
\* amount when the fee input is empty and the entered amount otherwise, 0
\* included; the core is called with these records.
C8_FeeDefaulting ==
    caller = "ui" =>
        /\ \A i \in 1..Len(selected_tasks) :
               LET num == selected_tasks[i].num
               IN  /\ check[num]
                   /\ selected_tasks[i].task.fee =
                          IF fee[num] = NoFee THEN DEFAULT_FEES[num].amount ELSE fee[num]
        /\ \A num \in DOMAIN DEFAULT_FEES :
               check[num] => \E i \in 1..Len(selected_tasks) : selected_tasks[i].num = num
        /\ pc \in {"title", "opening", "ident", "overall", "lot", "scope", "footer", "save"}
               => args.selected_tasks = selected_tasks

\* The core runs for a task whose entered fee is 0 and differs from the
\* default.
C8_Witness ==
    /\ caller = "ui"
    /\ pc = "scope"
    /\ \E i \in 1..Len(args.selected_tasks) :
           /\ fee[args.selected_tasks[i].num] = 0
           /\ args.selected_tasks[i].task.fee = 0
           /\ DEFAULT_FEES[args.selected_tasks[i].num].amount # 0

\* C9 as claimed: when a generation call of the script has ended, with the
\* download offered or with the failure message, the temp file is closed
\* and deleted.
C9_TempReleased ==
    (caller = "ui" /\ pc = "idle") => (~handle_open /\ file = << >>)

\* C10: the generate button is enabled exactly when all nine mandatory
\* fields are non-empty and at least one task is checked, and the core runs
\* only for such widget values.
C10_GenerateOnlyWhenValid ==
    caller = "ui" =>
        LET valid == /\ \A w \in MandatoryWidgets : text[w] # ""
                     /\ \E c \in DOMAIN DEFAULT_FEES : check[c]
        IN  /\ button_enabled <=> valid
            /\ pc # "idle" =>
                   /\ valid
                   /\ args.selected_tasks # << >>
                   /\ \A k \in {"title", "ipo_number", "name", "project_manager",
                                "project_number", "overall_understanding",
                                "lot_understanding"} : args.project_info[k] # ""
                   /\ \A k \in {"name", "master_agreement_date"} : args.client_info[k] # ""

\* The button was clicked and the core has started.
C10_Witness ==
    /\ caller = "ui"
    /\ pc = "title"
    /\ button_enabled
    /\ \A w \in MandatoryWidgets : text[w] # ""
    /\ args.selected_tasks # << >>


\* ------------------------------------------------------------------------
\* Two sessions of the script side by side
\* ------------------------------------------------------------------------

\* Streamlit runs each browser session's script in a thread of its own in
\* one server process: the sessions share the file system, and with it the
\* one file at temp_path; everything else below is a session's own.
SessionIds == {"A", "B"}

\* The project titles the sessions' users type.
SessionTitles == {"Alpha Tower", "Beta Plaza"}

\* A session's text widgets: every field filled, with the title given.
SessionValues(title) ==
    [w \in TextWidgets |-> IF w = "project_title" THEN title ELSE SampleText(w)]

\* A session's task widgets: the first task checked, its fee input empty.
SessionChecked == [c \in DOMAIN DEFAULT_FEES |-> c = CatalogCodes[1]]

SessionFees == [c \in DOMAIN DEFAULT_FEES |-> NoFee]

\* A session between two clicks, with the title typed.
SessionIdle(title) ==
    [values |-> SessionValues(title),
     tasks |-> BuildSelectedTasks(SessionChecked, SessionFees),
     pc |-> "idle", args |-> NoArgs, doc |-> << >>, footer |-> "",
     margins |-> DefaultMargins, saved |-> FALSE, handle_open |-> FALSE,
     buffer |-> << >>, success_shown |-> FALSE, error_shown |-> FALSE,
     download |-> << >>]

InitSessions ==
    /\ caller = "ui"
    /\ text = [w \in TextWidgets |-> ""]
    /\ check = [c \in DOMAIN DEFAULT_FEES |-> FALSE]
    /\ fee = [c \in DOMAIN DEFAULT_FEES |-> NoFee]
    /\ selected_tasks = << >>
    /\ button_enabled = FALSE
    /\ success_shown = FALSE
    /\ error_shown = FALSE
    /\ download = << >>
    /\ pc = "sessions"
    /\ args = NoArgs
    /\ doc = << >>
    /\ footer = ""
    /\ margins = DefaultMargins
    /\ saved = FALSE
    /\ file = << >>
    /\ handle_open = FALSE
    /\ buffer = << >>
    /\ desc = ""
    /\ \E titles \in [SessionIds -> SessionTitles] :
         sessions = [sid \in SessionIds |-> SessionIdle(titles[sid])]

\* What a step of a session leaves alone: the single-session state.
sessionFrame ==
    << caller, text, check, fee, selected_tasks, button_enabled, success_shown,
       error_shown, download, pc, args, doc, footer, margins, saved, handle_open,
       buffer, desc >>

\* The locals of a session's call once its handler has ended.
SessionForget(r) ==
    [r EXCEPT !.args = NoArgs, !.doc = << >>, !.footer = "", !.margins = DefaultMargins,
              !.saved = FALSE, !.buffer = << >>]

\* A session's user clicks the generate button: the script runs again,
\* enters the handler and calls the core (Document(), margins).
SessionClick ==
    \E sid \in SessionIds :
      LET r == sessions[sid]
      IN  /\ r.pc = "idle"
          /\ can_generate(r.values, r.tasks)
          /\ sessions' = [sessions EXCEPT ![sid] =
                 [r EXCEPT !.success_shown = FALSE, !.error_shown = FALSE,
                           !.download = << >>, !.buffer = << >>,
                           !.args = [project_info |-> PrepareProjectInfo(r.values),
                                     client_info |-> PrepareClientInfo(r.values),
                                     selected_tasks |-> r.tasks,
                                     output_path |-> temp_path],
                           !.doc = << >>, !.footer = "", !.margins = OneInchMargins,
                           !.saved = FALSE, !.pc = "title"]]
          /\ UNCHANGED << sessionFrame, file >>

\* The blocks a builder statement of the core appends for the arguments a.
StatementBlocks(step, a) ==
    CASE step = "title" ->
             add_title_section(a.project_info["title"], a.project_info["ipo_number"])
      [] step = "opening" ->
             add_opening_paragraph(a.client_info["name"],
                                   a.client_info["master_agreement_date"])
      [] step = "ident" ->
             add_project_identification(a.project_info["name"],
                                        Get(a.project_info, "name_line2"),
                                        a.project_info["project_manager"],
                                        a.project_info["project_number"])
      [] step = "overall" ->
             UnderstandingBlocks(a.project_info, "overall_understanding",
                                 "Overall Project Understanding:")
      [] step = "lot" ->
             UnderstandingBlocks(a.project_info, "lot_understanding",
                                 "Lot Specific Project Understanding:")
      [] step = "scope" -> add_scope_of_services(a.selected_tasks).blocks
      [] step = "footer" -> << >>

\* A session's call runs one statement of the core before doc.save: a
\* builder on the session's own Document, or add_simple_footer.
SessionBuild ==
    \E sid \in SessionIds :
      LET r == sessions[sid]
      IN  /\ r.pc \in {"title", "opening", "ident", "overall", "lot", "scope", "footer"}
          /\ sessions' = [sessions EXCEPT ![sid] =
                 [r EXCEPT !.doc = r.doc \o StatementBlocks(r.pc, r.args),
                           !.footer = IF r.pc = "footer" THEN FooterText ELSE r.footer,
                           !.pc = IF r.pc = "scope"
                                     /\ add_scope_of_services(r.args.selected_tasks).raised
                                  THEN "raised" ELSE StepAfter(r.pc)]]
          /\ UNCHANGED << sessionFrame, file >>

\* doc.save(output_path) begins: the file at the path is opened for writing,
\* which empties it, or the open is refused.
SessionSaveBegin ==
    \E sid \in SessionIds : \E outcome \in {"opened", "refused"} :
      LET r == sessions[sid]
      IN  /\ r.pc = "save"
          /\ file' = IF outcome = "opened" THEN << Truncated >> ELSE file
          /\ sessions' = [sessions EXCEPT ![sid] =
                 [r EXCEPT !.pc = IF outcome = "opened" THEN "saving" ELSE "raised"]]
          /\ UNCHANGED sessionFrame

\* Another session is inside doc.save on the same path.
OtherSaving(sid) == \E other \in SessionIds \ {sid} : sessions[other].pc = "saving"

\* doc.save ends and the core returns: the package is written; when another
\* session writes the same path at the same time, the file holds this
\* session's package or bytes that are no document; or the write fails.
SessionSaveEnd ==
    \E sid \in SessionIds : \E outcome \in SaveOutcomes \ {"refused"} :
      LET r == sessions[sid]
          package == Serialize(r.doc, r.footer, r.margins)
      IN  /\ r.pc = "saving"
          /\ IF outcome = "written"
             THEN /\ \E content \in (IF OtherSaving(sid) THEN {package, Truncated}
                                     ELSE {package}) :
                       file' = << content >>
                  /\ sessions' = [sessions EXCEPT ![sid] =
                         [r EXCEPT !.saved = TRUE, !.pc = "returned"]]
             ELSE /\ file' = << Truncated >>
                  /\ sessions' = [sessions EXCEPT ![sid] = [r EXCEPT !.pc = "raised"]]
          /\ UNCHANGED sessionFrame

\* with open(temp_path, 'rb') as f:
SessionOpen ==
    \E sid \in SessionIds :
      LET r == sessions[sid]
      IN  /\ r.pc = "returned"
          /\ sessions' = [sessions EXCEPT ![sid] =
                 [r EXCEPT !.handle_open = TRUE, !.pc = "read"]]
          /\ UNCHANGED << sessionFrame, file >>

\* buffer.write(f.read()): what the file at temp_path holds at this moment.
SessionRead ==
    \E sid \in SessionIds :
      LET r == sessions[sid]
      IN  /\ r.pc = "read"
          /\ sessions' = [sessions EXCEPT ![sid] =
                 [r EXCEPT !.buffer = file, !.handle_open = FALSE, !.pc = "offer"]]
          /\ UNCHANGED << sessionFrame, file >>

\* filename, st.success, st.download_button with the buffer's bytes.
SessionOffer ==
    \E sid \in SessionIds :
      LET r == sessions[sid]
      IN  /\ r.pc = "offer"
          /\ sessions' = [sessions EXCEPT ![sid] =
                 SessionForget(
                     [r EXCEPT !.success_shown = TRUE,
                               !.download =
                                   << [data |-> r.buffer[1],
                                       file_name |->
                                           DownloadFileName(r.values["ipo_number"],
                                                            r.values["project_name"])] >>,
                               !.pc = "idle"])]
          /\ UNCHANGED << sessionFrame, file >>

\* except Exception as e: st.error(...)
SessionError ==
    \E sid \in SessionIds :
      LET r == sessions[sid]
      IN  /\ r.pc = "raised"
          /\ sessions' = [sessions EXCEPT ![sid] =
                 SessionForget([r EXCEPT !.error_shown = TRUE, !.pc = "idle"])]
          /\ UNCHANGED << sessionFrame, file >>

NextSessions ==
    \/ SessionClick
    \/ SessionBuild
    \/ SessionSaveBegin
    \/ SessionSaveEnd
    \/ SessionOpen
    \/ SessionRead
    \/ SessionOffer
    \/ SessionError

SpecSessions == InitSessions /\ [][NextSessions]_vars

\* The package of the document built from a session's own widget values.
OwnPackage(sid) ==
    Serialize(BodyOf([project_info |-> PrepareProjectInfo(sessions[sid].values),
                      client_info |-> PrepareClientInfo(sessions[sid].values),
                      selected_tasks |-> sessions[sid].tasks,
                      output_path |-> temp_path], 6),
              FooterText, OneInchMargins)

\* C11 as claimed: however the generation calls of two sessions interleave,
\* the bytes a session offers for download are the package of the document
\* built from that session's own inputs, never the other session's document
\* and never bytes that are no document.
C11_OwnDocumentOffered ==
    \A sid \in SessionIds :
        sessions[sid].download # << >> =>
            sessions[sid].download[1].data = OwnPackage(sid)


\* The keys of project_info and client_info that hold mandatory fields.
MandatoryInfoKeys ==
    { "title", "ipo_number", "name", "project_manager", "project_number",
      "overall_understanding", "lot_understanding" }

MandatoryClientKeys == { "name", "master_agreement_date" }

\* The record a: every mandatory field present and non-empty, and at least
\* one selected task.
ValidRecord(a) ==
    /\ \A k \in MandatoryInfoKeys :
           k \in DOMAIN a.project_info /\ a.project_info[k] \notin {"", None}
    /\ \A k \in MandatoryClientKeys :
           k \in DOMAIN a.client_info /\ a.client_info[k] \notin {"", None}
    /\ a.selected_tasks # << >>

\* C12 as claimed: a direct call with an invalid record (a mandatory field
\* missing or empty, or no selected task) fails before doc.save and writes
\* no document for it.
C12_InvalidDataFails ==
    (caller = "direct" /\ ~ValidRecord(args)) =>
        /\ pc \notin {"save", "returned"}
        /\ ~saved
        /\ file = << >>


\* The keys of a selected_tasks mapping, as a set.
KeySet(tasks) == { tasks[i].num : i \in 1..Len(tasks) }

====
